---- MODULE Spec2Model ----
(***************************************************************************)
(* A model of the back-testing engine of src/core/backtest_engine.py, of  *)
(* the performance analyzer of src/core/performance.py and of the sibling  *)
(* engine of src/backtest_platform.py.                                     *)
(*                                                                         *)
(* Numbers.  The engine computes with Python floats.  The model computes   *)
(* with exact rationals (a numerator and a positive denominator in lowest  *)
(* terms), so it states what the formulas of the code compute over the     *)
(* reals; rounding of the last bit of a float is outside the model.        *)
(*                                                                         *)
(* Time.  Open_time is counted in minutes.                                 *)
(***************************************************************************)
EXTENDS Integers, Sequences, FiniteSets, TLC

(***************************************************************************)
(* Exact rational arithmetic                                               *)
(***************************************************************************)
Abs(x) == IF x < 0 THEN -x ELSE x

RECURSIVE GCD(_, _)
GCD(a, b) == IF b = 0 THEN a ELSE GCD(b, a % b)

\* the rational n/d in lowest terms, d > 0
R(n, d) ==
    LET s == IF d < 0 THEN -1 ELSE 1
        g == GCD(Abs(n), Abs(d))
    IN  [n |-> (s * n) \div g, d |-> (s * d) \div g]

Zero == [n |-> 0, d |-> 1]
One == [n |-> 1, d |-> 1]

Add(a, b) ==
    LET g == GCD(a.d, b.d)
    IN  R(a.n * (b.d \div g) + b.n * (a.d \div g), (a.d \div g) * b.d)

Neg(a) == [n |-> -a.n, d |-> a.d]

Sub(a, b) == Add(a, Neg(b))

\* cross-cancelled before multiplying, so that the factors stay small
Mul(a, b) ==
    LET g1 == GCD(Abs(a.n), b.d)
        g2 == GCD(Abs(b.n), a.d)
    IN  [n |-> (a.n \div g1) * (b.n \div g2), d |-> (a.d \div g2) * (b.d \div g1)]

\* a / b, b # 0 (the engine never divides by zero on the runs modelled)
Div(a, b) == Mul(a, R(b.d, b.n))

Lt(a, b) ==
    LET g == GCD(a.d, b.d)
    IN  a.n * (b.d \div g) < b.n * (a.d \div g)

Le(a, b) == ~Lt(b, a)

Min(a, b) == IF Lt(b, a) THEN b ELSE a
Max(a, b) == IF Lt(a, b) THEN b ELSE a
AbsR(a) == [n |-> Abs(a.n), d |-> a.d]

RECURSIVE SumOver(_, _)
\* the sum of the rationals f[1] + ... + f[Len(f)]
SumOver(f, k) == IF k = 0 THEN Zero ELSE Add(SumOver(f, k - 1), f[k])

Sum(f) == SumOver(f, Len(f))

(***************************************************************************)
(* The lot ledger: open_positions (a FIFO of buy records) and               *)
(* closed_positions (the realised matches)                                  *)
(***************************************************************************)
\* a _process_buy_trade that records the quantity before the commission
ProcessBuyTrade_Gross(open, quantity, price, timestamp, commission) ==
    Append(open, [quantity |-> Add(quantity, Div(commission, price)), buy_price |-> price,
                  buy_timestamp |-> timestamp, commission |-> commission])

\* _process_buy_trade: the buy record appended to open_positions
ProcessBuyTrade(open, quantity, price, timestamp, commission) ==
    Append(open, [quantity |-> quantity, buy_price |-> price,
                  buy_timestamp |-> timestamp, commission |-> commission])

\* the share of the entry commission charged to one match: the code divides
\* by buy_record['quantity'] as read at the head of the iteration, which is
\* the quantity the lot has left, not the quantity it was opened with
BuyCommissionShare(buy_commission, matched, buy_quantity) ==
    Mul(buy_commission, Div(matched, buy_quantity))

\* a share that charges every match the whole commission of the sale
SellCommissionShare_Whole(commission, matched, sell_quantity) == commission

\* line 296, second term: the share of the sale's commission charged to one
\* match
SellCommissionShare(commission, matched, sell_quantity) ==
    Mul(commission, Div(matched, sell_quantity))

\* the closed position recorded for one match
ClosedPosition(buy_record, matched, sell_quantity, sell_price, timestamp, commission) ==
    LET gross_profit == Mul(Sub(sell_price, buy_record.buy_price), matched)
        total_commission ==
            Add(BuyCommissionShare(buy_record.commission, matched, buy_record.quantity),
                SellCommissionShare(commission, matched, sell_quantity))
    IN  [quantity |-> matched,
         buy_price |-> buy_record.buy_price,
         sell_price |-> sell_price,
         buy_timestamp |-> buy_record.buy_timestamp,
         sell_timestamp |-> timestamp,
         gross_profit |-> gross_profit,
         commission |-> total_commission,
         net_profit |-> Sub(gross_profit, total_commission)]

\* a loop that matches the newest lot first
NextLot_Newest(open) == Len(open)

\* the lot the loop of _process_sell_trade matches next: the oldest one
NextLot(open) == 1

\* a _process_sell_trade that matches the oldest lot and stops
SellLoop_OneLot(open, closed, remaining_sell, sell_quantity, sell_price, timestamp, commission) ==
    IF ~(Lt(Zero, remaining_sell) /\ open # <<>>)
    THEN [open_positions |-> open, closed_positions |-> closed,
          remaining_sell |-> remaining_sell]
    ELSE IF Le(open[1].quantity, remaining_sell)
    THEN [open_positions |-> SubSeq(open, 2, Len(open)),
          closed_positions |->
              Append(closed, ClosedPosition(open[1], open[1].quantity, sell_quantity,
                                            sell_price, timestamp, commission)),
          remaining_sell |-> Sub(remaining_sell, open[1].quantity)]
    ELSE [open_positions |->
              [open EXCEPT ![1].quantity = Sub(open[1].quantity, remaining_sell)],
          closed_positions |->
              Append(closed, ClosedPosition(open[1], remaining_sell, sell_quantity,
                                            sell_price, timestamp, commission)),
          remaining_sell |-> Zero]

RECURSIVE SellLoop(_, _, _, _, _, _, _)
\* the while loop of _process_sell_trade
SellLoop(open, closed, remaining_sell, sell_quantity, sell_price, timestamp, commission) ==
    IF ~(Lt(Zero, remaining_sell) /\ open # <<>>)
    THEN [open_positions |-> open, closed_positions |-> closed,
          remaining_sell |-> remaining_sell]
    ELSE
        LET k == NextLot(open)
            buy_record == open[k]
            buy_quantity == buy_record.quantity
            full == Le(buy_quantity, remaining_sell)
            matched == IF full THEN buy_quantity ELSE remaining_sell
            rest == IF full THEN Sub(remaining_sell, buy_quantity) ELSE Zero
            open2 ==
                IF full
                THEN [j \in 1 .. Len(open) - 1 |-> IF j < k THEN open[j] ELSE open[j + 1]]
                ELSE [open EXCEPT ![k].quantity = Sub(buy_quantity, remaining_sell)]
            cp == ClosedPosition(buy_record, matched, sell_quantity, sell_price,
                                 timestamp, commission)
        IN  SellLoop(open2, Append(closed, cp), rest, sell_quantity, sell_price,
                     timestamp, commission)

\* _process_sell_trade
ProcessSellTrade(open, closed, sell_quantity, sell_price, timestamp, commission) ==
    SellLoop(open, closed, sell_quantity, sell_quantity, sell_price, timestamp, commission)

(***************************************************************************)
(* One iteration of the loop of run_backtest, as a function of the loop's  *)
(* state s, the signal and the row of the bar                               *)
(***************************************************************************)
\* a target that is not cut off at 1
BuyTargetRatio_Unclamped(ratio, signal) == Add(ratio, signal)

\* line 156: the ratio a positive signal aims at
BuyTargetRatio(ratio, signal) == Min(One, Add(ratio, signal))

\* a BUY that needs additional * capital, whatever the engine already holds
AdditionalCapitalNeeded_Unscaled(additional_position_ratio, capital, ratio) ==
    Mul(additional_position_ratio, capital)

\* line 161: the cash a BUY puts in
AdditionalCapitalNeeded(additional_position_ratio, capital, ratio) ==
    Div(Mul(additional_position_ratio, capital), Sub(One, ratio))

\* line 165 and line 203: the commission on a traded value
Commission(value, rate) == Mul(value, rate)

\* a BUY that does not take the commission out of the quantity bought
ActualInvestment_NoCommission(needed, commission, price) == Div(needed, price)

\* line 166: the quantity a BUY adds
ActualInvestment(needed, commission, price) == Div(Sub(needed, commission), price)

\* a BUY that charges the commission on top of the amount invested
CapitalAfterBuy_CommissionOnTop(capital, needed, commission) ==
    Sub(capital, Add(needed, commission))

\* a BUY that leaves the cash as it was
CapitalAfterBuy_KeepCash(capital, needed, commission) == capital

\* line 173: the cash left by a BUY (the commission is taken out of the
\* amount invested, not charged on top of it)
CapitalAfterBuy(capital, needed, commission) == Sub(capital, needed)

\* a target that is not cut off at 0
SellTargetRatio_Unclamped(ratio, signal) == Sub(ratio, AbsR(signal))

\* lines 193-194: the ratio a negative signal aims at
SellTargetRatio(ratio, signal) == Max(Zero, Sub(ratio, AbsR(signal)))

\* a gate that also opens when the target equals the ratio held
SellGate_OrEqual(target_position_ratio, real_position_ratio) ==
    Le(target_position_ratio, real_position_ratio)

\* a gate that is always open
SellGate_Always(target_position_ratio, real_position_ratio) == TRUE

\* line 197: a SELL executes when the target is below the ratio held at the
\* close
SellGate(target_position_ratio, real_position_ratio) ==
    Lt(target_position_ratio, real_position_ratio)

\* line 196: the mark-to-market ratio of the position
RealPositionRatio(capital, position, price) ==
    Div(Mul(position, price), Add(capital, Mul(position, price)))

\* a sale sized on the position alone, as if no cash were held
SellPosition_IgnoreCash(capital, position, price, target_position_ratio) ==
    Sub(position, Mul(target_position_ratio, position))

\* a sale of the whole position, whatever the target
SellPosition_All(capital, position, price, target_position_ratio) == position

\* lines 200-201: the quantity a SELL takes out
SellPosition(capital, position, price, target_position_ratio) ==
    Sub(position, Div(Mul(target_position_ratio, Add(capital, Mul(position, price))), price))

\* a SELL that adds the commission to the proceeds
CapitalAfterSell_AddCommission(capital, sell_value, commission) ==
    Add(capital, Add(sell_value, commission))

\* lines 204 and 210: the cash after a SELL
CapitalAfterSell(capital, sell_value, commission) ==
    Add(capital, Sub(sell_value, commission))

\* a sample that leaves the cash out
PortfolioValue_PositionOnly(ratio, capital, position, price) == Mul(position, price)

\* a sample that leaves the position out
PortfolioValue_CashOnly(ratio, capital, position, price) == capital

\* lines 230-235: the portfolio value sampled for the bar
PortfolioValue(ratio, capital, position, price) ==
    IF Lt(Zero, ratio) THEN Add(capital, Mul(position, price)) ELSE capital

\* lines 154-189: the branch of a positive signal
BuyStep(s, signal, row, rate) ==
    LET current_price == row.Close
        target_position_ratio == BuyTargetRatio(s.current_position_ratio, signal)
        additional_position_ratio == Sub(target_position_ratio, s.current_position_ratio)
    IN  IF ~Lt(Zero, additional_position_ratio)
        THEN [s EXCEPT !.branch = "BUY_FULL"]
        ELSE
            LET needed == AdditionalCapitalNeeded(additional_position_ratio,
                              s.current_capital, s.current_position_ratio)
            IN  IF ~Le(needed, s.current_capital)
                THEN [s EXCEPT !.branch = "BUY_NO_CASH"]
                ELSE
                    LET commission == Commission(needed, rate)
                        actual_investment == ActualInvestment(needed, commission, current_price)
                        capital == CapitalAfterBuy(s.current_capital, needed, commission)
                        trade == [timestamp |-> row.Open_time,
                                  action |-> "BUY",
                                  price |-> current_price,
                                  position_ratio |-> additional_position_ratio,
                                  amount |-> actual_investment,
                                  commission |-> commission,
                                  capital_before |-> Add(capital, needed),
                                  capital_after |-> capital]
                    IN  [s EXCEPT
                            !.current_position_ratio = target_position_ratio,
                            !.current_position = Add(s.current_position, actual_investment),
                            !.current_capital = capital,
                            !.open_positions = ProcessBuyTrade(s.open_positions,
                                actual_investment, current_price, row.Open_time, commission),
                            !.trades = Append(s.trades, trade),
                            !.branch = "BUY"]

\* lines 191-227: the branch of a negative signal
SellStep(s, signal, row, rate) ==
    LET current_price == row.Close
        target_position_ratio == SellTargetRatio(s.current_position_ratio, signal)
        real_position_ratio ==
            RealPositionRatio(s.current_capital, s.current_position, current_price)
    IN  IF ~SellGate(target_position_ratio, real_position_ratio)
        THEN [s EXCEPT !.branch = "SELL_GATED"]
        ELSE
            LET sell_position == SellPosition(s.current_capital, s.current_position,
                                     current_price, target_position_ratio)
                sell_value == Mul(sell_position, current_price)
                commission == Commission(sell_value, rate)
                net_sell_value == Sub(sell_value, commission)
                capital == CapitalAfterSell(s.current_capital, sell_value, commission)
                ledger == ProcessSellTrade(s.open_positions, s.closed_positions,
                              sell_position, current_price, row.Open_time, commission)
                \* the record's closed_positions entry is the engine's own list,
                \* not a copy of it
                trade == [timestamp |-> row.Open_time,
                          action |-> "SELL",
                          price |-> current_price,
                          position_ratio |-> Sub(s.current_position_ratio, target_position_ratio),
                          amount |-> sell_value,
                          commission |-> commission,
                          capital_before |-> Sub(capital, net_sell_value),
                          capital_after |-> capital,
                          closed_positions |-> "self.closed_positions"]
            IN  [s EXCEPT
                    !.current_position_ratio = target_position_ratio,
                    !.current_position = Sub(s.current_position, sell_position),
                    !.current_capital = capital,
                    !.open_positions = ledger.open_positions,
                    !.closed_positions = ledger.closed_positions,
                    !.remaining_sell = ledger.remaining_sell,
                    !.trades = Append(s.trades, trade),
                    !.branch = "SELL"]

\* lines 229-241: the sample of the bar, appended to the state t the bar's
\* branch left
AppendSample(t, row) ==
    [t EXCEPT !.portfolio_values =
                  Append(t.portfolio_values,
                         PortfolioValue(t.current_position_ratio, t.current_capital,
                                        t.current_position, row.Close)),
              !.positions = Append(t.positions, t.current_position_ratio)]

\* lines 150-241: one bar.  The test of line 236 compares a list with 0 and
\* is never true, so lines 237-239 never run.
BarStep(s, signal, row, rate) ==
    AppendSample(IF Lt(Zero, signal) THEN BuyStep(s, signal, row, rate)
                 ELSE IF Lt(signal, Zero) THEN SellStep(s, signal, row, rate)
                 ELSE [s EXCEPT !.branch = "ZERO"],
                 row)

(***************************************************************************)
(* Bounds and inputs                                                       *)
(***************************************************************************)
\* the longest bar sequence of the grid of runs
MaxBars == 3
\* the longest bar sequence an engine that is called again and again holds
MaxLifeBars == 2

\* the longest bar sequence the sibling engine is run on
MaxPlatformBars == 3

\* the spacing of the bars, in minutes (the data file holds 1-minute bars)
BarMinutes == 1

RECURSIVE SeqsUpTo(_, _)
\* the sequences over S of length 0 .. n
SeqsUpTo(S, n) ==
    IF n = 0 THEN {<<>>}
    ELSE LET shorter == SeqsUpTo(S, n - 1)
         IN  shorter \cup {Append(q, x) : q \in {r \in shorter : Len(r) = n - 1}, x \in S}

\* the DataFrame load_data builds from a file of the given closes
MakeRows(closes) ==
    [k \in 1 .. Len(closes) |-> [Open_time |-> k * BarMinutes, Close |-> R(closes[k], 1)]]

\* The environments the engine is run in.  "grid": every bar sequence over
\* two prices and a set of signals that reaches both clamps; "e2e" and
\* "fifo": the two worked examples; "life": an engine that is loaded and
\* called any number of times; "again": an engine that is run any number of
\* times on the data it was built on; "platform": the sibling engine of
\* src/backtest_platform.py.
Scenarios == {"grid", "e2e", "fifo"}

CapitalsOf(sc) ==
    CASE sc = "e2e" -> {R(10000, 1)}
      [] sc = "fifo" -> {R(300, 1)}
      [] sc = "perf" -> {R(80, 1)}
      [] OTHER -> {R(8, 1)}

RatesOf(sc) ==
    CASE sc = "e2e" -> {R(1, 1000)}
      [] sc = "fifo" -> {Zero}
      [] sc = "twin" -> {Zero}
      [] sc = "perf" -> {Zero}
      [] sc = "platform" -> {Zero, R(1, 4)}
      [] OTHER -> {Zero, R(1, 2)}

ClosesOf(sc) ==
    CASE sc = "e2e" -> {<<100, 110, 90>>}
      [] sc = "fifo" -> {<<100, 200, 150>>}
      [] sc = "life" -> SeqsUpTo({1, 2}, MaxLifeBars)
      [] sc = "again" -> SeqsUpTo({1, 2}, MaxLifeBars)
      [] sc = "platform" -> SeqsUpTo({1, 2}, MaxPlatformBars)
      [] OTHER -> SeqsUpTo({1, 2}, MaxBars)

\* The signals a list may hold at its next place, given the signals before
\* it.  On the grid a signal of magnitude 3/2 stands for every signal the
\* clamps of lines 156 and 194 cut down; the first worked example is run on
\* the lists that do not buy again after a sale.
SignalsOf(sc, before) ==
    CASE sc = "e2e" ->
            IF \E k \in 1 .. Len(before) : before[k].n < 0
            THEN {Zero, Neg(One)} ELSE {One, Zero, Neg(One)}
      [] sc = "fifo" -> {R(1, 3), R(2, 3), Zero, R(-1, 2)}
      [] sc = "life" -> {One, Zero, R(-1, 2)}
      [] sc = "again" -> {One, Zero, R(-1, 2)}
      [] sc = "platform" -> {One, R(1, 2), Zero, R(-1, 2)}
      [] OTHER -> {R(-3, 2), R(-1, 2), R(-1, 4), Zero, R(1, 4), R(1, 2), R(3, 2)}

\* the values of the percentage argument of run_backtest
Percentages == {50, 100}

NoData == [loaded |-> FALSE, rows |-> <<>>]
Loaded(closes) == [loaded |-> TRUE, rows |-> MakeRows(closes)]

(***************************************************************************)
(* The engine                                                              *)
(***************************************************************************)
VARIABLES
    scenario,                \* the environment (fixes the inputs drawn)
    initial_capital, commission_rate, data,                  \* configuration
    portfolio_values, positions, trades,                     \* the fields
    open_positions, closed_positions, equity_curve,          \*   of the engine
    pc,                      \* "idle", or "loop" inside run_backtest
    nsignals,                \* len(signals) of the last call
    signals,                 \* the signals the loop has read so far
    percentage, target_length,
    current_capital, current_position_ratio, current_position,   \* the locals
    remaining_sell,          \* the local of the last _process_sell_trade
    branch,                  \* the branch the last bar took
    outcome,                 \* how the last call of run_backtest ended
    twin,                    \* two runs side by side (SpecTwin)
    perf,                    \* a PerformanceAnalyzer (SpecPerf)
    last_run                 \* the inputs and results of the last run that completed

fields == <<portfolio_values, positions, trades, open_positions, closed_positions>>
locals == <<current_capital, current_position_ratio, current_position,
            remaining_sell, branch>>
config == <<scenario, initial_capital, commission_rate>>
vars == <<config, data, fields, equity_curve, pc, nsignals, signals, percentage,
          target_length, locals, outcome, twin, perf, last_run>>

\* the loop's state as the record BarStep works on
LoopState ==
    [current_capital |-> current_capital,
     current_position_ratio |-> current_position_ratio,
     current_position |-> current_position,
     portfolio_values |-> portfolio_values,
     positions |-> positions,
     trades |-> trades,
     open_positions |-> open_positions,
     closed_positions |-> closed_positions,
     remaining_sell |-> remaining_sell,
     branch |-> branch]

SetLoopState(s) ==
    /\ current_capital' = s.current_capital
    /\ current_position_ratio' = s.current_position_ratio
    /\ current_position' = s.current_position
    /\ portfolio_values' = s.portfolio_values
    /\ positions' = s.positions
    /\ trades' = s.trades
    /\ open_positions' = s.open_positions
    /\ closed_positions' = s.closed_positions
    /\ remaining_sell' = s.remaining_sell
    /\ branch' = s.branch

\* a start that forgets to empty the lot queue
StartState_KeepLots(capital) ==
    [current_capital |-> capital,
     current_position_ratio |-> Zero,
     current_position |-> Zero,
     portfolio_values |-> <<capital>>,
     positions |-> <<Zero>>,
     trades |-> <<>>,
     open_positions |-> open_positions,
     closed_positions |-> <<>>,
     remaining_sell |-> Zero,
     branch |-> "START"]

\* lines 131-142: the state a run starts from
StartState(capital) ==
    [current_capital |-> capital,
     current_position_ratio |-> Zero,
     current_position |-> Zero,
     portfolio_values |-> <<capital>>,
     positions |-> <<Zero>>,
     trades |-> <<>>,
     open_positions |-> <<>>,
     closed_positions |-> <<>>,
     remaining_sell |-> Zero,
     branch |-> "START"]

\* no run has completed yet
NoRun ==
    [done |-> FALSE, rows |-> <<>>, signals |-> <<>>, trades |-> <<>>,
     closed_positions |-> <<>>, equity_curve |-> <<>>, repeated |-> FALSE]

\* __init__ (lines 49-64): no results yet; the data file, when one is given,
\* is loaded
InitEngine(sc, d) ==
    /\ scenario = sc
    /\ initial_capital \in CapitalsOf(sc)
    /\ commission_rate \in RatesOf(sc)
    /\ data = d
    /\ portfolio_values = <<>>
    /\ positions = <<>>
    /\ trades = <<>>
    /\ equity_curve = <<>>
    /\ open_positions = <<>>
    /\ closed_positions = <<>>
    /\ pc = "idle"
    /\ nsignals = 0
    /\ signals = <<>>
    /\ percentage = 100
    /\ target_length = 0
    /\ current_capital = Zero
    /\ current_position_ratio = Zero
    /\ current_position = Zero
    /\ remaining_sell = Zero
    /\ branch = "START"
    /\ outcome = "none"
    /\ last_run = NoRun

Init ==
    /\ \E sc \in Scenarios : \E closes \in ClosesOf(sc) : InitEngine(sc, Loaded(closes))
    /\ twin = <<>>
    /\ perf = <<>>

\* load_data (lines 87-115): the file parses, or data becomes None
LoadData ==
    /\ pc = "idle"
    /\ \/ \E closes \in ClosesOf(scenario) : data' = Loaded(closes)
       \/ data' = NoData
    /\ UNCHANGED <<config, fields, equity_curve, pc, nsignals, signals, percentage,
                   target_length, locals, outcome, twin, perf, last_run>>

\* a run_backtest that checks its arguments after the initialisation of
\* lines 131-142
RunBacktestRaise_AfterReset(nsignals_) ==
    /\ pc = "idle"
    /\ ~data.loaded \/ nsignals_ # Len(data.rows)
    /\ SetLoopState(StartState(initial_capital))
    /\ nsignals' = nsignals_
    /\ outcome' = IF ~data.loaded THEN "ValueError:data" ELSE "ValueError:signals"
    /\ UNCHANGED <<config, data, equity_curve, pc, signals, percentage,
                   target_length, twin, perf, last_run>>

\* run_backtest called with nsignals_ signals: lines 125-129 raise
RunBacktestRaise(nsignals_) ==
    /\ pc = "idle"
    /\ ~data.loaded \/ nsignals_ # Len(data.rows)
    /\ nsignals' = nsignals_
    /\ outcome' = IF ~data.loaded THEN "ValueError:data" ELSE "ValueError:signals"
    /\ UNCHANGED <<config, data, fields, equity_curve, pc, signals, percentage,
                   target_length, locals, twin, perf, last_run>>

\* int(len(self.data) * percentage / 100.0)
TargetLength(n, p) == (n * p) \div 100

\* run_backtest called with as many signals as bars: lines 131-148
RunBacktestStart(p) ==
    /\ pc = "idle"
    /\ data.loaded
    /\ SetLoopState(StartState(initial_capital))
    /\ nsignals' = Len(data.rows)
    /\ percentage' = p
    /\ target_length' = TargetLength(Len(data.rows), p)
    /\ signals' = <<>>
    /\ pc' = "loop"
    /\ outcome' = "running"
    /\ UNCHANGED <<config, data, equity_curve, twin, perf, last_run>>

\* the number of iterations of the loop of line 150
LoopLength == IF target_length < Len(data.rows) THEN target_length ELSE Len(data.rows)

\* one iteration of the loop of line 150, on the next signal of the list
ProcessBar(signal) ==
    /\ pc = "loop"
    /\ Len(signals) < LoopLength
    /\ SetLoopState(BarStep(LoopState, signal, data.rows[Len(signals) + 1], commission_rate))
    /\ signals' = Append(signals, signal)
    /\ UNCHANGED <<config, data, equity_curve, pc, nsignals, percentage,
                   target_length, outcome, twin, perf, last_run>>

\* a first index one minute after the first bar
FirstIndex_After(rows) == rows[1].Open_time + 1

\* the index of the equity curve (lines 245-246): one minute before the first
\* bar, then every bar of self.data
FirstIndex(rows) == rows[1].Open_time - 1

EquityIndex(rows) == <<FirstIndex(rows)>> \o [k \in 1 .. Len(rows) |-> rows[k].Open_time]

\* the record of the run that completes with the equity curve curve: what it
\* was given and what it left in the engine
Completed(curve) ==
    [done |-> TRUE,
     rows |-> data.rows,
     signals |-> signals,
     trades |-> trades,
     closed_positions |-> closed_positions,
     equity_curve |-> curve,
     repeated |-> last_run.done /\ last_run.rows = data.rows /\ last_run.signals = signals]

\* lines 243-260: the equity curve.  iloc[0] of an empty frame raises
\* IndexError; pandas raises ValueError when the values and the index differ
\* in length
FinishRun ==
    /\ pc = "loop"
    /\ Len(signals) = LoopLength
    /\ pc' = "idle"
    /\ IF data.rows = <<>>
       THEN outcome' = "IndexError" /\ UNCHANGED equity_curve
       ELSE IF Len(portfolio_values) # Len(EquityIndex(data.rows))
       THEN outcome' = "ValueError:index" /\ UNCHANGED equity_curve
       ELSE /\ outcome' = "ok"
            /\ equity_curve' = [k \in 1 .. Len(portfolio_values) |->
                                   [t |-> EquityIndex(data.rows)[k], v |-> portfolio_values[k]]]
    /\ UNCHANGED <<config, data, fields, nsignals, signals, percentage,
                   target_length, locals, twin, perf>>

\* the last step of run_backtest
Finish == FinishRun /\ UNCHANGED last_run

\* the same step, with the completed run put on record
FinishRecorded ==
    /\ FinishRun
    /\ last_run' = IF outcome' = "ok" THEN Completed(equity_curve') ELSE last_run

\* an engine built on a data file and called once
FirstCall ==
    /\ outcome = "none"
    /\ \/ \E n \in 0 .. MaxBars + 1 : RunBacktestRaise(n)
       \/ \E p \in Percentages : RunBacktestStart(p)

Bar == \E signal \in SignalsOf(scenario, signals) : ProcessBar(signal)

Next == FirstCall \/ Bar \/ Finish

Spec == Init /\ [][Next]_vars

(***************************************************************************)
(* An engine that is loaded and called any number of times                  *)
(***************************************************************************)
InitLife ==
    /\ \/ InitEngine("life", NoData)
       \/ \E closes \in ClosesOf("life") : InitEngine("life", Loaded(closes))
    /\ twin = <<>>
    /\ perf = <<>>

Call ==
    \/ \E n \in 0 .. MaxLifeBars + 1 : RunBacktestRaise(n)
    \/ \E p \in Percentages : RunBacktestStart(p)

NextLife == LoadData \/ Call \/ Bar \/ Finish

SpecLife == InitLife /\ [][NextLife]_vars

(***************************************************************************)
(* An engine built on a data file and run again and again on it             *)
(***************************************************************************)
InitAgain ==
    /\ \E closes \in ClosesOf("again") : InitEngine("again", Loaded(closes))
    /\ twin = <<>>
    /\ perf = <<>>

NextAgain == Call \/ Bar \/ FinishRecorded

SpecAgain == InitAgain /\ [][NextAgain]_vars

(***************************************************************************)
(* Two runs side by side on the same bars and signals, the first at the     *)
(* commission rate ra and the second at the rate rb >= ra                   *)
(***************************************************************************)
\* the longest bar sequence of the twin runs
MaxTwinBars == 4

TwinRates == {<<Zero, R(1, 4)>>, <<Zero, R(1, 2)>>, <<R(1, 4), R(1, 2)>>}
TwinCloses == {1, 2}
TwinSignals == {R(1, 2), R(-1, 4), Zero}

InitTwin ==
    /\ InitEngine("twin", NoData)
    /\ \E rates \in TwinRates :
          twin = [ra |-> rates[1], rb |-> rates[2],
                  a |-> StartState(initial_capital),
                  b |-> StartState(initial_capital),
                  bars |-> 0,
                  same |-> TRUE]
    /\ perf = <<>>

\* the branch names of the bars that trade
Traded(s) == s.branch \in {"BUY", "SELL"}

\* bar k of the twin runs
TwinRow(k, close) == [Open_time |-> k * BarMinutes, Close |-> R(close, 1)]

\* the twin runs after a bar that left the states a2 and b2
TwinAfter(t, a2, b2) ==
    [t EXCEPT !.a = a2, !.b = b2, !.bars = t.bars + 1,
              !.same = t.same /\ (a2.branch = b2.branch)]

\* the next bar of both runs
TwinBar(signal, close) ==
    /\ twin.bars < MaxTwinBars
    /\ twin' = TwinAfter(twin, BarStep(twin.a, signal, TwinRow(twin.bars + 1, close), twin.ra),
                               BarStep(twin.b, signal, TwinRow(twin.bars + 1, close), twin.rb))
    /\ UNCHANGED <<config, data, fields, equity_curve, pc, nsignals, signals,
                   percentage, target_length, locals, outcome, perf, last_run>>

NextTwin == \E signal \in TwinSignals, close \in TwinCloses : TwinBar(signal, close)

SpecTwin == InitTwin /\ [][NextTwin]_vars

\* the final capital of a run: its last equity sample
FinalCapital(s) == s.portfolio_values[Len(s.portfolio_values)]

(***************************************************************************)
(* The sibling engine of src/backtest_platform.py.  Its fields and locals   *)
(* have the names of the core engine's and are kept in the same variables.  *)
(***************************************************************************)
\* the closed position recorded for one match (lines 84-108)
PlatformClosedPosition(open_position, close_quantity, sell_quantity, sell_price, timestamp, commission) ==
    [buy_timestamp |-> open_position.timestamp,
     sell_timestamp |-> timestamp,
     buy_price |-> open_position.price,
     sell_price |-> sell_price,
     quantity |-> close_quantity,
     buy_commission |-> open_position.commission,
     sell_commission |-> Mul(commission, Div(close_quantity, sell_quantity)),
     gross_profit |-> Mul(Sub(sell_price, open_position.price), close_quantity),
     net_profit |->
         Sub(Sub(Mul(Sub(sell_price, open_position.price), close_quantity),
                 open_position.commission),
             Mul(commission, Div(close_quantity, sell_quantity)))]

RECURSIVE PlatformSellLoop(_, _, _, _, _, _, _, _)
\* the while loop of _process_sell_trade (lines 78-119)
PlatformSellLoop(open, closed, in_trade, remaining, sell_quantity, sell_price, timestamp, commission) ==
    IF ~(Lt(Zero, remaining) /\ open # <<>>)
    THEN [open_positions |-> open, closed_positions |-> closed,
          closed_positions_in_trade |-> in_trade, remaining_sell |-> remaining]
    ELSE IF Le(open[1].remaining_quantity, remaining)
    THEN PlatformSellLoop(
             Tail(open),
             Append(closed, PlatformClosedPosition(open[1], open[1].remaining_quantity,
                                sell_quantity, sell_price, timestamp, commission)),
             Append(in_trade, PlatformClosedPosition(open[1], open[1].remaining_quantity,
                                sell_quantity, sell_price, timestamp, commission)),
             Sub(remaining, open[1].remaining_quantity),
             sell_quantity, sell_price, timestamp, commission)
    ELSE PlatformSellLoop(
             [open EXCEPT ![1].remaining_quantity = Sub(open[1].remaining_quantity, remaining)],
             Append(closed, PlatformClosedPosition(open[1], remaining,
                                sell_quantity, sell_price, timestamp, commission)),
             Append(in_trade, PlatformClosedPosition(open[1], remaining,
                                sell_quantity, sell_price, timestamp, commission)),
             Zero,
             sell_quantity, sell_price, timestamp, commission)

\* lines 159 and 202: current_assest
PlatformAssets(s, row) == Add(s.current_capital, Mul(s.current_position, row.Close))

\* lines 164-167: the cash a BUY puts in, to bring the position to the target
\* share of the assets
PlatformCapitalNeeded(s, row, target_position_ratio) ==
    Sub(Mul(target_position_ratio, PlatformAssets(s, row)),
        Mul(s.current_position, row.Close))

\* lines 170-201: the BUY that executes, needed being the cash it puts in
PlatformBuy(s, row, rate, target_position_ratio, needed) ==
    [s EXCEPT
        !.current_position_ratio = target_position_ratio,
        !.current_position =
            Add(s.current_position, Div(Sub(needed, Mul(needed, rate)), row.Close)),
        !.current_capital = Sub(s.current_capital, Add(needed, Mul(needed, rate))),
        !.trades =
            Append(s.trades,
                   [timestamp |-> row.Open_time,
                    action |-> "BUY",
                    price |-> row.Close,
                    position_ratio |-> Sub(target_position_ratio, s.current_position_ratio),
                    amount |-> Div(Sub(needed, Mul(needed, rate)), row.Close),
                    commission |-> Mul(needed, rate),
                    capital_before |-> Sub(s.current_capital, Mul(needed, rate)),
                    capital_after |-> Sub(s.current_capital, Add(needed, Mul(needed, rate)))]),
        !.open_positions =
            Append(s.open_positions,
                   [timestamp |-> row.Open_time,
                    price |-> row.Close,
                    quantity |-> Div(Sub(needed, Mul(needed, rate)), row.Close),
                    commission |-> Mul(needed, rate),
                    remaining_quantity |-> Div(Sub(needed, Mul(needed, rate)), row.Close)]),
        !.branch = "BUY"]

\* lines 155-201: the branch of a positive signal
PlatformBuyStep(s, signal, row, rate) ==
    IF ~Lt(RealPositionRatio(s.current_capital, s.current_position, row.Close),
           Min(One, Add(s.current_position_ratio, signal)))
    THEN [s EXCEPT !.branch = "BUY_FULL"]
    ELSE IF ~Le(PlatformCapitalNeeded(s, row, Min(One, Add(s.current_position_ratio, signal))),
                s.current_capital)
    THEN [s EXCEPT !.branch = "BUY_NO_CASH"]
    ELSE PlatformBuy(s, row, rate, Min(One, Add(s.current_position_ratio, signal)),
                     PlatformCapitalNeeded(s, row,
                         Min(One, Add(s.current_position_ratio, signal))))

\* lines 207-236: the SELL that executes, sell_position being the quantity it
\* takes out and ledger what _process_sell_trade returns and leaves
PlatformSell(s, row, rate, target_position_ratio, sell_position, ledger) ==
    [s EXCEPT
        !.current_position_ratio = target_position_ratio,
        !.current_position = Sub(s.current_position, sell_position),
        !.current_capital =
            Add(s.current_capital,
                Sub(Mul(sell_position, row.Close), Mul(Mul(sell_position, row.Close), rate))),
        !.open_positions = ledger.open_positions,
        !.closed_positions = ledger.closed_positions,
        !.remaining_sell = ledger.remaining_sell,
        !.trades =
            Append(s.trades,
                   [timestamp |-> row.Open_time,
                    action |-> "SELL",
                    price |-> row.Close,
                    position_ratio |-> Sub(s.current_position_ratio, target_position_ratio),
                    amount |-> Mul(sell_position, row.Close),
                    commission |-> Mul(Mul(sell_position, row.Close), rate),
                    capital_before |-> s.current_capital,
                    capital_after |->
                        Add(s.current_capital,
                            Sub(Mul(sell_position, row.Close),
                                Mul(Mul(sell_position, row.Close), rate))),
                    closed_positions |-> ledger.closed_positions_in_trade]),
        !.branch = "SELL"]

\* the quantity a SELL takes out (lines 207-208)
PlatformSellPosition(s, row, target_position_ratio) ==
    Sub(s.current_position,
        Div(Mul(target_position_ratio, PlatformAssets(s, row)), row.Close))

\* lines 198-236: the branch of a negative signal
PlatformSellStep(s, signal, row, rate) ==
    IF ~Lt(Max(Zero, Sub(s.current_position_ratio, AbsR(signal))),
           RealPositionRatio(s.current_capital, s.current_position, row.Close))
    THEN [s EXCEPT !.branch = "SELL_GATED"]
    ELSE PlatformSell(s, row, rate,
             Max(Zero, Sub(s.current_position_ratio, AbsR(signal))),
             PlatformSellPosition(s, row, Max(Zero, Sub(s.current_position_ratio, AbsR(signal)))),
             PlatformSellLoop(s.open_positions, s.closed_positions, <<>>,
                 PlatformSellPosition(s, row,
                     Max(Zero, Sub(s.current_position_ratio, AbsR(signal)))),
                 PlatformSellPosition(s, row,
                     Max(Zero, Sub(s.current_position_ratio, AbsR(signal)))),
                 row.Close, row.Open_time,
                 Mul(Mul(PlatformSellPosition(s, row,
                             Max(Zero, Sub(s.current_position_ratio, AbsR(signal)))),
                         row.Close), rate)))

\* lines 150-247: one bar.  Both branches divide by current_assest (lines 160
\* and 203): when the assets are 0 the division raises ZeroDivisionError and
\* the bar leaves everything as it was.
PlatformBarStep(s, signal, row, rate) ==
    IF signal = Zero THEN AppendSample([s EXCEPT !.branch = "ZERO"], row)
    ELSE IF PlatformAssets(s, row) = Zero THEN [s EXCEPT !.branch = "RAISE"]
    ELSE IF Lt(Zero, signal) THEN AppendSample(PlatformBuyStep(s, signal, row, rate), row)
    ELSE AppendSample(PlatformSellStep(s, signal, row, rate), row)

InitPlatform ==
    /\ \E closes \in ClosesOf("platform") : InitEngine("platform", Loaded(closes))
    /\ twin = <<>>
    /\ perf = <<>>

\* run_backtest called with a list of another length than the data: line 134
\* raises
PlatformRaise(nsignals_) ==
    /\ pc = "idle"
    /\ outcome = "none"
    /\ nsignals_ # Len(data.rows)
    /\ nsignals' = nsignals_
    /\ outcome' = "ValueError:signals"
    /\ UNCHANGED <<config, data, fields, equity_curve, pc, signals, percentage,
                   target_length, locals, twin, perf, last_run>>

\* run_backtest called with as many signals as bars: lines 137-148
PlatformStart ==
    /\ pc = "idle"
    /\ outcome = "none"
    /\ SetLoopState(StartState(initial_capital))
    /\ nsignals' = Len(data.rows)
    /\ signals' = <<>>
    /\ pc' = "loop"
    /\ outcome' = "running"
    /\ UNCHANGED <<config, data, equity_curve, percentage, target_length, twin, perf,
                   last_run>>

\* the engine after a bar that left the loop's state t
PlatformAfter(t) ==
    /\ SetLoopState(t)
    /\ pc' = IF t.branch = "RAISE" THEN "idle" ELSE "loop"
    /\ outcome' = IF t.branch = "RAISE" THEN "ZeroDivisionError" ELSE "running"

\* one iteration of the loop of line 152
PlatformBar(signal) ==
    /\ pc = "loop"
    /\ Len(signals) < Len(data.rows)
    /\ PlatformAfter(PlatformBarStep(LoopState, signal, data.rows[Len(signals) + 1],
                                     commission_rate))
    /\ signals' = Append(signals, signal)
    /\ UNCHANGED <<config, data, equity_curve, nsignals, percentage, target_length,
                   twin, perf, last_run>>

\* lines 253-259: the equity curve, as in the core engine
PlatformFinish ==
    /\ pc = "loop"
    /\ Len(signals) = Len(data.rows)
    /\ pc' = "idle"
    /\ IF data.rows = <<>>
       THEN outcome' = "IndexError" /\ UNCHANGED equity_curve
       ELSE /\ outcome' = "ok"
            /\ equity_curve' = [k \in 1 .. Len(portfolio_values) |->
                                   [t |-> EquityIndex(data.rows)[k], v |-> portfolio_values[k]]]
    /\ UNCHANGED <<config, data, fields, nsignals, signals, percentage,
                   target_length, locals, twin, perf, last_run>>

NextPlatform ==
    \/ \E n \in 0 .. MaxPlatformBars + 1 : PlatformRaise(n)
    \/ PlatformStart
    \/ \E signal \in SignalsOf("platform", signals) : PlatformBar(signal)
    \/ PlatformFinish

SpecPlatform == InitPlatform /\ [][NextPlatform]_vars

(***************************************************************************)
(* The performance analyzer of src/core/performance.py                      *)
(***************************************************************************)
\* the longest equity curve and the longest list of closed positions an
\* analyzer is built on
MaxSamples == 3
MaxClosed == 4

PerfValues == {0, 4, 8}
PerfSpacings == {1, 60}
PerfNetProfits == {100, -1, 0}

\* The values an equity_curve argument can have: the list [] the engine's
\* __init__ leaves in self.equity_curve until a run completes, None, or a
\* Series of samples [t, v]
FreshList == [kind |-> "list", samples |-> <<>>]
Absent == [kind |-> "None", samples |-> <<>>]
Series(samples) == [kind |-> "Series", samples |-> samples]

\* a Series of the given values, one sample every spacing minutes
MakeCurve(values, spacing) ==
    Series([k \in 1 .. Len(values) |-> [t |-> (k - 1) * spacing, v |-> R(values[k], 1)]])

PerfCurves ==
    {FreshList, Absent}
        \cup {MakeCurve(values, spacing) :
                 values \in SeqsUpTo(PerfValues, MaxSamples), spacing \in PerfSpacings}

\* closed positions with the given net profits (the analyzer reads
\* net_profit, buy_price and quantity)
PerfClosed(nets) ==
    [k \in 1 .. Len(nets) |->
        [buy_price |-> One, quantity |-> One, net_profit |-> R(nets[k], 1)]]

\* What __init__ raises (lines 32-35): `<` between a list or None and a float
\* is a TypeError; on an empty Series no sample is below 0.1 and index[-1] of
\* line 35 is an IndexError
InitError(curve) ==
    IF curve.kind \in {"list", "None"} THEN "TypeError"
    ELSE IF curve.samples = <<>> THEN "IndexError"
    ELSE "none"

\* the places of the samples below 0.1 (line 32)
BelowThreshold(samples) == {k \in 1 .. Len(samples) : Lt(samples[k].v, R(1, 10))}

\* a dead time that runs to the last sample below 0.1
DeadTimeMinutes_Last(samples) ==
    IF BelowThreshold(samples) # {}
    THEN samples[CHOOSE k \in BelowThreshold(samples) :
                     \A j \in BelowThreshold(samples) : k >= j].t - samples[1].t
    ELSE samples[Len(samples)].t - samples[1].t

\* lines 32-36: dead_time_minutes
DeadTimeMinutes(samples) ==
    IF BelowThreshold(samples) # {}
    THEN samples[CHOOSE k \in BelowThreshold(samples) :
                     \A j \in BelowThreshold(samples) : k <= j].t - samples[1].t
    ELSE samples[Len(samples)].t - samples[1].t

\* the floats that are not rationals: 0/0 and x/0 for x > 0
NaN == [n |-> 0, d |-> 0]
Inf == [n |-> 1, d |-> 0]

\* cur / prev - 1 on the non-negative floats prev and cur
PctOf(prev, cur) ==
    IF prev = Zero THEN (IF cur = Zero THEN NaN ELSE Inf)
    ELSE Sub(Div(cur, prev), One)

\* line 68: equity_curve.pct_change().dropna().  The first entry of
\* pct_change is NaN, and so is every 0/0; dropna removes them.
PctChange(samples) ==
    SelectSeq([k \in 1 .. Len(samples) - 1 |-> PctOf(samples[k].v, samples[k + 1].v)],
              LAMBDA x : x # NaN)

Mean(xs) == Div(Sum(xs), R(Len(xs), 1))

SquaredDeviations(xs, mean) ==
    [k \in 1 .. Len(xs) |-> Mul(Sub(xs[k], mean), Sub(xs[k], mean))]

\* the square of Series.std(): the sample deviation, NaN below two values
\* and NaN when a value is infinite
StdSquared(xs) ==
    IF Len(xs) < 2 THEN NaN
    ELSE IF \E k \in 1 .. Len(xs) : xs[k] = Inf THEN NaN
    ELSE Div(Sum(SquaredDeviations(xs, Mean(xs))), R(Len(xs) - 1, 1))

\* line 81: time_span.total_seconds() / (24 * 3600), from minutes
TotalDays(samples) == R(samples[Len(samples)].t - samples[1].t, 24 * 60)

\* the number under the root of line 86
VolatilityBarsPerYear == 365 * 24 * 60

\* lines 71-96: annual_volatility.  The model keeps its square,
\* std^2 * 365*24*60, since the root is not a rational.
AnnualVolatilitySquared(samples) ==
    IF Len(samples) > 1 /\ Lt(Zero, TotalDays(samples))
    THEN IF StdSquared(PctChange(samples)) = NaN THEN NaN
         ELSE Mul(StdSquared(PctChange(samples)), R(VolatilityBarsPerYear, 1))
    ELSE Zero

\* lines 83-84 and 88-96: annual_multiplier
AnnualMultiplier(samples) ==
    IF Len(samples) > 1 /\ Lt(Zero, TotalDays(samples))
    THEN Div(R(365, 1), TotalDays(samples))
    ELSE Zero

\* the product and the quotient of floats that are not negative
MulFloat(a, b) ==
    IF a = NaN \/ b = NaN THEN NaN
    ELSE IF a = Inf \/ b = Inf THEN (IF a = Zero \/ b = Zero THEN NaN ELSE Inf)
    ELSE Mul(a, b)

RECURSIVE CumProd(_, _)
\* line 102: (1 + daily_returns).cumprod(), at place k
CumProd(xs, k) ==
    IF k = 0 THEN One
    ELSE MulFloat(CumProd(xs, k - 1), IF xs[k] = Inf THEN Inf ELSE Add(One, xs[k]))

\* the larger of two floats, NaN skipped
MaxFloat(a, b) ==
    IF a = NaN THEN b
    ELSE IF b = NaN THEN a
    ELSE IF a = Inf \/ b = Inf THEN Inf
    ELSE Max(a, b)

RECURSIVE RunningMax(_, _)
\* line 103: cumulative_returns.expanding().max(), at place k
RunningMax(xs, k) ==
    IF k = 1 THEN CumProd(xs, 1)
    ELSE MaxFloat(RunningMax(xs, k - 1), CumProd(xs, k))

\* line 104: (cumulative_returns - running_max) / running_max, at place k
Drawdown(xs, k) ==
    IF CumProd(xs, k) = NaN \/ CumProd(xs, k) = Inf THEN NaN
    ELSE IF RunningMax(xs, k) \in {NaN, Inf, Zero} THEN NaN
    ELSE Div(Sub(CumProd(xs, k), RunningMax(xs, k)), RunningMax(xs, k))

\* the smallest of a set of rationals
Smallest(S) == CHOOSE x \in S : \A y \in S : Le(x, y)

\* a drawdown measured from the first sample of the curve
MaxDrawdownOf_FromStart(xs) ==
    IF {Drawdown(xs, k) : k \in 1 .. Len(xs)} \ {NaN} = {} THEN NaN
    ELSE Smallest({Drawdown(<<Zero>> \o xs, k + 1) : k \in 1 .. Len(xs)} \ {NaN})

\* line 105: drawdown.min(), NaN skipped, of the returns xs
MaxDrawdownOf(xs) ==
    IF {Drawdown(xs, k) : k \in 1 .. Len(xs)} \ {NaN} = {} THEN NaN
    ELSE Smallest({Drawdown(xs, k) : k \in 1 .. Len(xs)} \ {NaN})

NetProfitsOf(closed) == [k \in 1 .. Len(closed) |-> closed[k].net_profit]

\* line 109
ProfitableAmount(closed) ==
    Sum([k \in 1 .. Len(closed) |->
            IF Lt(Zero, closed[k].net_profit) THEN closed[k].net_profit ELSE Zero])

\* line 110
UnprofitableAmount(closed) ==
    Sum([k \in 1 .. Len(closed) |->
            IF Lt(Zero, closed[k].net_profit) THEN Zero ELSE Neg(closed[k].net_profit)])

\* a win rate that counts the winning positions
WinRate_ByCount(closed) ==
    IF closed = <<>> THEN Zero
    ELSE R(Cardinality({k \in 1 .. Len(closed) : Lt(Zero, closed[k].net_profit)}),
           Len(closed))

\* lines 108-112 and 124-125: win_rate
WinRate(closed) ==
    IF closed = <<>> THEN Zero
    ELSE IF Lt(Zero, Add(ProfitableAmount(closed), UnprofitableAmount(closed)))
    THEN Div(ProfitableAmount(closed),
             Add(ProfitableAmount(closed), UnprofitableAmount(closed)))
    ELSE Zero

\* line 118: sum(profits) / sum(costs)
AvgProfitPercentage(closed) ==
    IF closed = <<>> THEN Zero
    ELSE Div(Sum(NetProfitsOf(closed)),
             Sum([k \in 1 .. Len(closed) |-> Mul(closed[k].buy_price, closed[k].quantity)]))

\* calculate_performance (lines 59-151).  {} is the empty function <<>>.
\* annual_return and sharpe_ratio are not part of the model.
CalculatePerformance(a) ==
    IF a.equity_curve.kind = "None" \/ a.equity_curve.samples = <<>>
    THEN <<>>
    ELSE [total_return |->
              Div(Sub(a.equity_curve.samples[Len(a.equity_curve.samples)].v,
                      a.initial_capital), a.initial_capital),
          annual_volatility_squared |-> AnnualVolatilitySquared(a.equity_curve.samples),
          max_drawdown |-> MaxDrawdownOf(PctChange(a.equity_curve.samples)),
          win_rate |-> WinRate(a.closed_positions),
          total_positions |-> Len(a.closed_positions),
          avg_profit_percentage |-> AvgProfitPercentage(a.closed_positions),
          final_capital |-> a.equity_curve.samples[Len(a.equity_curve.samples)].v,
          initial_capital |-> a.initial_capital,
          time_span_days |->
              IF Len(a.equity_curve.samples) > 1 THEN TotalDays(a.equity_curve.samples)
              ELSE Zero,
          annual_multiplier |-> AnnualMultiplier(a.equity_curve.samples),
          dead_time_minutes |-> a.dead_time_minutes]

\* the arguments of PerformanceAnalyzer(...), before __init__ runs
InitPerf ==
    /\ InitEngine("perf", NoData)
    /\ twin = <<>>
    /\ \E curve \in PerfCurves, nets \in SeqsUpTo(PerfNetProfits, MaxClosed) :
          perf = [equity_curve |-> curve,
                  closed_positions |-> PerfClosed(nets),
                  initial_capital |-> initial_capital,
                  pc |-> "new",
                  error |-> "none",
                  dead_time_minutes |-> 0,
                  report |-> <<>>]

\* __init__ (lines 28-37)
Construct ==
    /\ perf.pc = "new"
    /\ perf' = IF InitError(perf.equity_curve) # "none"
               THEN [perf EXCEPT !.pc = "raised", !.error = InitError(perf.equity_curve)]
               ELSE [perf EXCEPT !.pc = "built",
                                 !.dead_time_minutes =
                                     DeadTimeMinutes(perf.equity_curve.samples)]
    /\ UNCHANGED <<config, data, fields, equity_curve, pc, nsignals, signals,
                   percentage, target_length, locals, outcome, twin, last_run>>

\* calculate_performance() on the analyzer __init__ built
Calculate ==
    /\ perf.pc = "built"
    /\ perf' = [perf EXCEPT !.pc = "done", !.report = CalculatePerformance(perf)]
    /\ UNCHANGED <<config, data, fields, equity_curve, pc, nsignals, signals,
                   percentage, target_length, locals, outcome, twin, last_run>>

NextPerf == Construct \/ Calculate

SpecPerf == InitPerf /\ [][NextPerf]_vars

(***************************************************************************)
(* Properties                                                              *)
(***************************************************************************)
\* the quantities the open lots have left
LotQuantities == [k \in 1 .. Len(open_positions) |-> open_positions[k].quantity]

\* a bar has been processed in the state
BarDone == Len(signals) >= 1 /\ outcome # "none"

\* C1: after every processed bar the quantities left in the open lots add up
\* to the position the engine holds.
C1_LotsSumToPosition == Sum(LotQuantities) = current_position

\* C1 witness: a SELL has closed part of the position and two lots are
\* still open, the older one partly consumed.
C1_Witness ==
    /\ branch = "SELL"
    /\ Len(open_positions) >= 2
    /\ closed_positions # <<>>
    /\ Lt(Zero, commission_rate)
    /\ closed_positions[Len(closed_positions)].buy_timestamp = open_positions[1].buy_timestamp

\* C2: cash is never negative, whatever the signals and the prices.
C2_CashNonNegative == Le(Zero, current_capital)

\* C2 witness: a BUY at a positive commission rate has spent all the cash.
C2_Witness ==
    /\ branch = "BUY"
    /\ current_capital = Zero
    /\ Lt(Zero, commission_rate)
    /\ Lt(Zero, current_position)

\* the net profits of the closed positions
NetProfits == [k \in 1 .. Len(closed_positions) |-> closed_positions[k].net_profit]

\* C3: when a run ends with every lot sold, the net profits of the closed
\* positions add up to the cash gained or lost.
C3_NetProfitIsCashProfit ==
    (outcome = "ok" /\ open_positions = <<>>)
        => Sum(NetProfits) = Sub(current_capital, initial_capital)

\* the signals of the end-to-end example
E2E == <<One, Zero, Neg(One)>>

\* the first k bars of the end-to-end example have been processed
OnE2E(k) ==
    /\ scenario = "e2e"
    /\ Len(signals) = k
    /\ \A j \in 1 .. k : signals[j] = E2E[j]

\* C4: the end-to-end example (capital 10000, rate 0.001, closes 100, 110, 90,
\* signals 1, 0, -1): bar 1 buys 99.9 for a commission of 10 and leaves no
\* cash; bar 2 trades nothing and samples 10989; bar 3 sells for 8991 at a
\* commission of 8.991, leaving cash 8982.009 and no position, with one closed
\* position of gross profit -999 and net profit -1017.991; the last sample is
\* 8982.009.
C4_EndToEnd ==
    /\ OnE2E(1) =>
          /\ Len(trades) = 1
          /\ trades[1].action = "BUY"
          /\ trades[1].commission = R(10, 1)
          /\ trades[1].amount = R(999, 10)
          /\ current_capital = Zero
    /\ OnE2E(2) =>
          /\ Len(trades) = 1
          /\ portfolio_values[3] = R(10989, 1)
    /\ OnE2E(3) =>
          /\ Len(trades) = 2
          /\ trades[2].action = "SELL"
          /\ trades[2].amount = R(8991, 1)
          /\ trades[2].commission = R(8991, 1000)
          /\ current_capital = R(8982009, 1000)
          /\ current_position = Zero
          /\ Len(closed_positions) = 1
          /\ closed_positions[1].gross_profit = R(-999, 1)
          /\ closed_positions[1].net_profit = R(-1017991, 1000)
          /\ portfolio_values[4] = R(8982009, 1000)
          /\ Len(portfolio_values) = 4
          /\ outcome = "ok" => equity_curve[4].v = R(8982009, 1000)

\* C4 witness: the three bars of the example have been processed.
C4_Witness == OnE2E(3) /\ branch = "SELL" /\ outcome = "ok"

\* the signals of the FIFO example: buy 1 unit at 100, buy 1 unit at 200,
\* sell 1 unit
FifoSignals == <<R(1, 3), R(2, 3), R(-1, 2)>>

OnFifo(k) ==
    /\ scenario = "fifo"
    /\ Len(signals) = k
    /\ \A j \in 1 .. k : signals[j] = FifoSignals[j]

\* C5: lots are matched oldest first.  The open lots stand in the order they
\* were opened; every closed position comes from a lot no younger than any
\* lot still open, and only the head of the queue can be a lot that has
\* already been matched in part; closed positions are emitted oldest lot
\* first.  In the example, two BUYs of 1 unit at 100 and 200 and a SELL of
\* 1 unit close the lot bought at 100 and leave the lot bought at 200 whole.
C5_Fifo ==
    /\ \A j \in 1 .. Len(open_positions) - 1 :
          open_positions[j].buy_timestamp < open_positions[j + 1].buy_timestamp
    /\ \A c \in 1 .. Len(closed_positions) : \A j \in 1 .. Len(open_positions) :
          /\ closed_positions[c].buy_timestamp <= open_positions[j].buy_timestamp
          /\ j >= 2 => closed_positions[c].buy_timestamp < open_positions[j].buy_timestamp
    /\ \A c \in 1 .. Len(closed_positions) - 1 :
          closed_positions[c].buy_timestamp <= closed_positions[c + 1].buy_timestamp
    /\ OnFifo(2) =>
          /\ Len(open_positions) = 2
          /\ open_positions[1].quantity = One /\ open_positions[1].buy_price = R(100, 1)
          /\ open_positions[2].quantity = One /\ open_positions[2].buy_price = R(200, 1)
    /\ OnFifo(3) =>
          /\ Len(closed_positions) = 1
          /\ closed_positions[1].buy_price = R(100, 1)
          /\ closed_positions[1].quantity = One
          /\ Len(open_positions) = 1
          /\ open_positions[1].buy_price = R(200, 1)
          /\ open_positions[1].quantity = One

\* C5 witness: the SELL of the example has been matched.
C5_Witness == OnFifo(3) /\ branch = "SELL" /\ remaining_sell = Zero

\* C6 as stated: at the higher commission rate the final capital is never
\* the larger one.
C6_CommissionMonotone ==
    twin.bars >= 1 => Le(FinalCapital(twin.b), FinalCapital(twin.a))

\* C6 as amended: when the two runs take the same branch on every bar, the
\* final capital at the higher rate is not larger than at the lower rate.
C6_MonotoneOnSameBranches ==
    twin.same => Le(FinalCapital(twin.b), FinalCapital(twin.a))

\* C6 witness: both runs bought and sold on the same bars, and the higher
\* rate ended with strictly less.
C6_Witness ==
    /\ twin.same
    /\ twin.bars >= 3
    /\ \E k \in 1 .. Len(twin.b.trades) : twin.b.trades[k].action = "SELL"
    /\ Lt(Zero, twin.ra)
    /\ Lt(FinalCapital(twin.b), FinalCapital(twin.a))

\* every signal read so far is 0
AllZero == \A k \in 1 .. Len(signals) : signals[k] = Zero

\* C7: on signals that are all 0 the engine records no trade and no closed
\* position, and every equity sample, the pre-trade one included, is the
\* initial capital, whatever the prices.
C7_AllZeroFlat ==
    ((pc = "loop" \/ outcome = "ok") /\ AllZero) =>
        /\ trades = <<>>
        /\ closed_positions = <<>>
        /\ Len(portfolio_values) = Len(signals) + 1
        /\ \A k \in 1 .. Len(portfolio_values) : portfolio_values[k] = initial_capital
        /\ outcome = "ok" =>
              /\ Len(equity_curve) = Len(signals) + 1
              /\ \A k \in 1 .. Len(equity_curve) : equity_curve[k].v = initial_capital

\* C7 witness: a finished run of three zero signals over bars whose prices
\* differ.
C7_Witness ==
    /\ outcome = "ok"
    /\ AllZero
    /\ Len(signals) = 3
    /\ data.rows[1].Close # data.rows[2].Close

\* the results a call of run_backtest leaves behind
results == <<portfolio_values, positions, trades, open_positions, closed_positions,
             equity_curve>>

\* a step that is a call of run_backtest: it raises at once or enters the loop
CallStep ==
    /\ pc = "idle"
    /\ data' = data
    /\ pc' = "loop" \/ outcome' \in {"ValueError:data", "ValueError:signals"}
    /\ outcome' # outcome \/ nsignals' # nsignals

\* C8: a call without data, or with a signal list whose length is not the
\* number of bars, raises and leaves every result of the engine as it was;
\* only a call that passes both tests enters the loop.
C8_RaiseLeavesResults ==
    [][CallStep =>
          IF ~data.loaded
          THEN pc' = "idle" /\ outcome' = "ValueError:data" /\ UNCHANGED results
          ELSE IF nsignals' # Len(data.rows)
          THEN pc' = "idle" /\ outcome' = "ValueError:signals" /\ UNCHANGED results
          ELSE pc' = "loop"]_vars

\* C8 witness: a call has raised on an engine that holds the results of an
\* earlier successful run.
C8_Witness ==
    /\ pc = "idle"
    /\ outcome \in {"ValueError:data", "ValueError:signals"}
    /\ trades # <<>>
    /\ closed_positions # <<>>
    /\ Len(equity_curve) >= 3

\* C9: after a successful run over n bars the equity curve has n + 1
\* samples; the first is the initial capital, timestamped before the first
\* bar; sample i + 1 is the sample of bar i; the timestamps never decrease.
C9_EquityCurveShape ==
    outcome = "ok" =>
        LET n == Len(data.rows)
        IN  /\ Len(signals) = n
            /\ Len(equity_curve) = n + 1
            /\ equity_curve[1].v = initial_capital
            /\ equity_curve[1].t < data.rows[1].Open_time
            /\ \A k \in 1 .. n :
                  /\ equity_curve[k + 1].t = data.rows[k].Open_time
                  /\ equity_curve[k + 1].v = portfolio_values[k + 1]
                  /\ equity_curve[k].t <= equity_curve[k + 1].t

\* C9 witness: a successful run over three bars that traded.
C9_Witness == outcome = "ok" /\ Len(data.rows) = 3 /\ Len(trades) >= 2

\* C10: the sample appended for a bar is cash + position * close of the state
\* the bar's branch left, and the cash alone when the position is 0.
C10_EquitySample ==
    Len(signals) >= 1 =>
        LET close == data.rows[Len(signals)].Close
            sample == portfolio_values[Len(portfolio_values)]
        IN  /\ Len(portfolio_values) = Len(signals) + 1
            /\ sample = Add(current_capital, Mul(current_position, close))
            /\ current_position = Zero => sample = current_capital

\* C10 witness: a bar whose SELL was gated, with cash and a position held at
\* a price other than the price paid.
C10_Witness ==
    /\ branch = "SELL_GATED"
    /\ Lt(Zero, current_position)
    /\ Lt(Zero, current_capital)
    /\ open_positions[1].buy_price # data.rows[Len(signals)].Close

\* A stored trade as a reader of self.trades sees it: line 225 stores the
\* engine's own closed_positions list in the record of a SELL, so that entry
\* shows whatever the list holds when it is read
StoredTrade(trade, closed) ==
    IF trade.action = "SELL" THEN [trade EXCEPT !.closed_positions = closed] ELSE trade

\* C11: while the loop runs, every trade the log holds stays at its place and
\* keeps the value of every one of its fields, whatever later bars do
C11_TradesImmutable ==
    [][(pc = "loop" /\ pc' = "loop") =>
           \A k \in 1 .. Len(trades) :
               /\ k <= Len(trades')
               /\ StoredTrade(trades'[k], closed_positions')
                      = StoredTrade(trades[k], closed_positions)]_vars

\* the curve holds no sample: an empty Series, None, or the list [] of an
\* engine that has not run
EmptyOrAbsent(curve) == curve.samples = <<>>

\* C12: an analyzer built on an empty or absent equity curve does not raise,
\* and its calculate_performance returns {}
C12_EmptyCurveGivesEmptyReport ==
    EmptyOrAbsent(perf.equity_curve) =>
        /\ perf.pc # "raised"
        /\ perf.pc = "done" => perf.report = <<>>

\* calculate_performance has returned a report of metrics
Reported == perf.pc = "done" /\ perf.report # <<>>

RECURSIVE SumPositive(_, _)
\* the sum of the positive values among nets[1] .. nets[k]
SumPositive(nets, k) ==
    IF k = 0 THEN Zero
    ELSE IF nets[k].n > 0 THEN Add(SumPositive(nets, k - 1), nets[k])
    ELSE SumPositive(nets, k - 1)

RECURSIVE SumMagnitudes(_, _)
\* |nets[1]| + ... + |nets[k]|
SumMagnitudes(nets, k) ==
    IF k = 0 THEN Zero ELSE Add(SumMagnitudes(nets, k - 1), AbsR(nets[k]))

\* the worked example: one position that made 100 and three that lost 1
OneBigWin == PerfClosed(<<100, -1, -1, -1>>)

\* C13: the reported win_rate is the sum of the positive net profits over the
\* sum of the magnitudes of all net profits, and 0 when there is no closed
\* position or that denominator is 0; the worked example gives 100/103
C13_WinRateByMagnitude ==
    Reported =>
        LET nets == NetProfitsOf(perf.closed_positions)
            denominator == SumMagnitudes(nets, Len(nets))
        IN  /\ perf.report.win_rate =
                   IF denominator = Zero THEN Zero
                   ELSE Div(SumPositive(nets, Len(nets)), denominator)
            /\ perf.closed_positions = OneBigWin => perf.report.win_rate = R(100, 103)

C13_Witness ==
    /\ Reported
    /\ perf.closed_positions = OneBigWin
    /\ perf.report.win_rate = R(100, 103)
    /\ perf.report.win_rate # R(1, 4)

\* the spacing of the samples of a curve, in minutes
BarSpacing(samples) == samples[2].t - samples[1].t

\* the bars a year holds at a spacing of d minutes: 365 days / d
BarsPerYear(d) == R(365 * 24 * 60, d)

\* C14: the reported annual volatility is the deviation of the per-bar returns
\* scaled by the root of the bars a year holds at the curve's own spacing
\* (squared: the variance times 365 days / spacing), so that 1-minute bars are
\* scaled by 525600 and 1-hour bars by 8760
C14_VolatilityUsesBarSpacing ==
    (Reported /\ Len(perf.equity_curve.samples) >= 3) =>
        perf.report.annual_volatility_squared =
            Mul(StdSquared(PctChange(perf.equity_curve.samples)),
                BarsPerYear(BarSpacing(perf.equity_curve.samples)))

\* a step that enters the loop of run_backtest
RunStarts == pc = "idle" /\ pc' = "loop"

\* a step that completes a run on the rows and signals of the run before it
RunRepeats ==
    /\ pc = "loop" /\ pc' = "idle" /\ outcome' = "ok"
    /\ last_run.done
    /\ last_run.rows = data.rows
    /\ last_run.signals = signals

\* C15: every run starts with the initial capital, no position, no trade, no
\* open lot and no closed position, whatever earlier runs left; and a run
\* on the rows and signals of the run completed before it on the same engine
\* ends with the same trades, closed positions and equity curve
C15_RunIsolation ==
    [][/\ RunStarts =>
              /\ current_capital' = initial_capital
              /\ current_position' = Zero
              /\ current_position_ratio' = Zero
              /\ trades' = <<>>
              /\ open_positions' = <<>>
              /\ closed_positions' = <<>>
       /\ RunRepeats =>
              /\ trades = last_run.trades
              /\ closed_positions = last_run.closed_positions
              /\ equity_curve' = last_run.equity_curve]_vars

C15_Witness ==
    /\ last_run.repeated
    /\ pc = "idle" /\ outcome = "ok"
    /\ Len(trades) = 2
    /\ closed_positions # <<>>
    /\ open_positions # <<>>

\* C16: after every bar the position held is not negative and the tracked
\* ratio lies in [0, 1], whatever the magnitude of the signals
C16_PositionAndRatioInRange ==
    /\ Le(Zero, current_position)
    /\ Le(Zero, current_position_ratio)
    /\ Le(current_position_ratio, One)

\* C16 witness: a signal of 3/2 bought up to the ratio 1 and a signal of -3/2
\* sold down to 0
C16_Witness ==
    /\ Len(signals) = 2
    /\ signals[1] = R(3, 2) /\ signals[2] = R(-3, 2)
    /\ Len(trades) = 2
    /\ trades[1].position_ratio = One /\ trades[2].position_ratio = One
    /\ current_position = Zero /\ current_position_ratio = Zero

\* a step that processes one bar; the signal and the row of that bar
BarTaken == pc = "loop" /\ pc' = "loop" /\ Len(signals') = Len(signals) + 1
TheSignal == signals'[Len(signals')]
TheRow == data.rows[Len(signals')]

\* the step appends exactly one trade, of the given action, to the log
OneTradeAppended(action) ==
    /\ Len(trades') = Len(trades) + 1
    /\ SubSeq(trades', 1, Len(trades)) = trades
    /\ trades'[Len(trades')].action = action

\* the step leaves the cash, the position, the tracked ratio, the lot queue,
\* the closed positions and the trade log as they are
PortfolioUnchanged ==
    /\ current_capital' = current_capital
    /\ current_position' = current_position
    /\ current_position_ratio' = current_position_ratio
    /\ open_positions' = open_positions
    /\ closed_positions' = closed_positions
    /\ trades' = trades

\* what the claims call target and required for a positive signal s at the
\* tracked ratio t and the cash c
TargetOfBuy(t, s) == IF Lt(Add(t, s), One) THEN Add(t, s) ELSE One
RequiredOfBuy(t, s, c) == Div(Mul(Sub(TargetOfBuy(t, s), t), c), Sub(One, t))

\* a positive signal s passes both tests of the BUY
BuyPasses(t, s, c) == Lt(t, TargetOfBuy(t, s)) /\ Le(RequiredOfBuy(t, s, c), c)

\* what the claims call target and real_ratio for a negative signal s
TargetOfSell(t, s) == IF Lt(AbsR(s), t) THEN Sub(t, AbsR(s)) ELSE Zero
RealRatio(c, q, p) == Div(Mul(q, p), Add(c, Mul(q, p)))

\* C17: a positive signal s at the tracked ratio t, the cash c and the close p,
\* with target = min(1, t + s) > t and required = (target - t) * c / (1 - t)
\* <= c, leaves the cash c - required, adds (required - required * rate) / p
\* to the position, sets the ratio to target, appends exactly one BUY trade
\* with the commission required * rate and exactly one lot of that quantity,
\* price and commission at the back of the queue
C17_BuyTransition ==
    [][(BarTaken /\ Lt(Zero, TheSignal)
            /\ BuyPasses(current_position_ratio, TheSignal, current_capital)) =>
           LET required ==
                   RequiredOfBuy(current_position_ratio, TheSignal, current_capital)
               bought == Div(Sub(required, Mul(required, commission_rate)), TheRow.Close)
           IN  /\ current_capital' = Sub(current_capital, required)
               /\ current_position' = Add(current_position, bought)
               /\ current_position_ratio' = TargetOfBuy(current_position_ratio, TheSignal)
               /\ OneTradeAppended("BUY")
               /\ trades'[Len(trades')].commission = Mul(required, commission_rate)
               /\ Len(open_positions') = Len(open_positions) + 1
               /\ SubSeq(open_positions', 1, Len(open_positions)) = open_positions
               /\ open_positions'[Len(open_positions')].quantity = bought
               /\ open_positions'[Len(open_positions')].buy_price = TheRow.Close
               /\ open_positions'[Len(open_positions')].commission
                      = Mul(required, commission_rate)]_vars

\* C17 witness: a second BUY, at a positive rate, has put its lot behind the
\* first one
C17_Witness ==
    /\ branch = "BUY"
    /\ Len(open_positions) = 2
    /\ Len(trades) = 2
    /\ Lt(Zero, trades[2].commission)
    /\ open_positions[2].commission = trades[2].commission

\* C18: on a negative signal a SELL trade is recorded exactly when target =
\* max(0, t - |s|) is below real_ratio = q * p / (c + q * p); otherwise the
\* bar changes nothing; and no SELL is recorded while the position is 0
C18_SellGate ==
    [][(BarTaken /\ Lt(TheSignal, Zero)) =>
           LET passes ==
                   Lt(TargetOfSell(current_position_ratio, TheSignal),
                      RealRatio(current_capital, current_position, TheRow.Close))
           IN  /\ passes <=> OneTradeAppended("SELL")
               /\ ~passes => PortfolioUnchanged
               /\ current_position = Zero => trades' = trades]_vars

\* C18 witness: a negative signal met a position whose ratio at the close was
\* not above the target, and nothing was sold
C18_Witness ==
    /\ branch = "SELL_GATED"
    /\ Lt(Zero, current_position)
    /\ Lt(signals[Len(signals)], Zero)
    /\ \A k \in 1 .. Len(trades) : trades[k].action = "BUY"

\* C19: an executed SELL with target g sells sold = q - g * (c + q * p) / p
\* with 0 < sold <= q, charges sold * p * rate, leaves the cash c + sold * p -
\* commission, the position q - sold and the ratio g; a SELL with target 0
\* leaves no position and no open lot
C19_SellTransition ==
    [][(BarTaken /\ Lt(TheSignal, Zero)
            /\ Lt(TargetOfSell(current_position_ratio, TheSignal),
                  RealRatio(current_capital, current_position, TheRow.Close))) =>
           LET g == TargetOfSell(current_position_ratio, TheSignal)
               p == TheRow.Close
               sold == Sub(current_position,
                           Div(Mul(g, Add(current_capital, Mul(current_position, p))), p))
               commission == Mul(Mul(sold, p), commission_rate)
           IN  /\ Lt(Zero, sold) /\ Le(sold, current_position)
               /\ OneTradeAppended("SELL")
               /\ trades'[Len(trades')].commission = commission
               /\ current_capital' = Sub(Add(current_capital, Mul(sold, p)), commission)
               /\ current_position' = Sub(current_position, sold)
               /\ current_position_ratio' = g
               /\ g = Zero => current_position' = Zero /\ open_positions' = <<>>]_vars

\* C19 witness: a SELL with target 0 closed two lots at a positive rate, after
\* a SELL that sold a part
C19_Witness ==
    /\ branch = "SELL"
    /\ current_position_ratio = Zero /\ current_position = Zero
    /\ open_positions = <<>>
    /\ Len(closed_positions) >= 2
    /\ Lt(Zero, commission_rate)
    /\ Lt(Zero, trades[Len(trades)].commission)

\* the bar is one the engine does not act on: a signal of 0, a positive
\* signal that fails a test of the BUY, a negative signal that fails the gate
NoActionBar ==
    \/ TheSignal = Zero
    \/ /\ Lt(Zero, TheSignal)
       /\ ~BuyPasses(current_position_ratio, TheSignal, current_capital)
    \/ /\ Lt(TheSignal, Zero)
       /\ ~Lt(TargetOfSell(current_position_ratio, TheSignal),
              RealRatio(current_capital, current_position, TheRow.Close))

\* C20: a bar the engine does not act on leaves the cash, the position, the
\* tracked ratio, the lot queue, the closed positions and the trade log
\* unchanged; all it does is append the bar's sample (the equity c + q * p,
\* and the tracked ratio in self.positions)
C20_NoActionFrame ==
    [][(BarTaken /\ NoActionBar) =>
           /\ PortfolioUnchanged
           /\ portfolio_values' =
                  Append(portfolio_values,
                         Add(current_capital, Mul(current_position, TheRow.Close)))
           /\ positions' = Append(positions, current_position_ratio)]_vars

\* C20 witness: a positive signal met a full position and only the sample was
\* appended
C20_Witness ==
    /\ branch = "BUY_FULL"
    /\ current_position_ratio = One
    /\ Len(trades) = 1
    /\ Len(portfolio_values) = 3
    /\ portfolio_values[3] # portfolio_values[2]

\* the trade of the given action recorded at the timestamp ts
TradeAt(action, ts) ==
    trades[CHOOSE k \in 1 .. Len(trades) :
               trades[k].action = action /\ trades[k].timestamp = ts]

\* the quantity the SELL trade sold: its value over its price
SoldBy(trade) == Div(trade.amount, trade.price)

\* the share of its SELL's commission that the claims charge to a closed
\* position: sell_commission * matched_quantity / sell_quantity
SellShare(cp) ==
    Mul(TradeAt("SELL", cp.sell_timestamp).commission,
        Div(cp.quantity, SoldBy(TradeAt("SELL", cp.sell_timestamp))))

\* the buy-side commission a closed position was charged: what its
\* commission holds beyond its share of the SELL's commission
BuyShare(cp) == Sub(cp.commission, SellShare(cp))

\* the buy-side commissions charged to the closed positions of the lot the
\* BUY trade opened
BuySharesOf(buy) ==
    [k \in 1 .. Len(closed_positions) |->
        IF closed_positions[k].buy_timestamp = buy.timestamp
        THEN BuyShare(closed_positions[k]) ELSE Zero]

\* the lot the BUY trade opened has been closed in full
LotClosed(buy) ==
    \A k \in 1 .. Len(open_positions) : open_positions[k].buy_timestamp # buy.timestamp

\* C21: every closed position is charged the entry commission of its lot times
\* the matched quantity over the quantity the lot was opened with; the
\* buy-side charges of the fragments of a lot never add up to more than its
\* entry commission, and add up to it once the lot is closed
C21_BuyCommissionByOriginalQuantity ==
    /\ \A k \in 1 .. Len(closed_positions) :
           BuyShare(closed_positions[k]) =
               Mul(TradeAt("BUY", closed_positions[k].buy_timestamp).commission,
                   Div(closed_positions[k].quantity,
                       TradeAt("BUY", closed_positions[k].buy_timestamp).amount))
    /\ \A k \in 1 .. Len(trades) :
           trades[k].action = "BUY" =>
               /\ Le(Sum(BuySharesOf(trades[k])), trades[k].commission)
               /\ LotClosed(trades[k]) => Sum(BuySharesOf(trades[k])) = trades[k].commission

\* a step in which a SELL executes; the closed positions it emits
SellTaken == BarTaken /\ branch' = "SELL"
Emitted == SubSeq(closed_positions', Len(closed_positions) + 1, Len(closed_positions'))
TheSell == trades'[Len(trades')]

\* the buy-side charge line 296 makes for the match of the lot: the entry
\* commission times the matched quantity over the quantity the lot had left
ChargedForBuy(lot, matched) == Mul(lot.commission, Div(matched, lot.quantity))

\* C22: every closed position a SELL emits is charged sell_commission *
\* matched_quantity / sell_quantity on top of its buy-side charge, and these
\* shares add up to the commission of the SELL trade
C22_SellCommissionShares ==
    [][SellTaken =>
           /\ Len(Emitted) <= Len(open_positions)
           /\ \A j \in 1 .. Len(Emitted) :
                  Sub(Emitted[j].commission,
                      ChargedForBuy(open_positions[j], Emitted[j].quantity))
                      = Mul(TheSell.commission, Div(Emitted[j].quantity, SoldBy(TheSell)))
           /\ Sum([j \in 1 .. Len(Emitted) |->
                      Sub(Emitted[j].commission,
                          ChargedForBuy(open_positions[j], Emitted[j].quantity))])
                  = TheSell.commission]_vars

\* C22 witness: a SELL at a positive rate has emitted two closed positions
C22_Witness ==
    /\ branch = "SELL"
    /\ Lt(Zero, trades[Len(trades)].commission)
    /\ Len(closed_positions) >= 2
    /\ closed_positions[Len(closed_positions)].sell_timestamp
           = trades[Len(trades)].timestamp
    /\ closed_positions[Len(closed_positions) - 1].sell_timestamp
           = trades[Len(trades)].timestamp

\* C23: every SELL the engine executes ends with remaining_sell = 0; it emits
\* one closed position for each lot it touched, oldest first, removes the
\* lots it consumed and leaves at most the last lot touched with a reduced
\* quantity; the quantities emitted add up to the quantity sold
C23_SellConsumesLots ==
    [][SellTaken =>
           LET m == Len(Emitted)
               sold == Sub(current_position, current_position')
           IN  /\ remaining_sell' = Zero
               /\ m >= 1 /\ m <= Len(open_positions)
               /\ \A j \in 1 .. m - 1 : Emitted[j].quantity = open_positions[j].quantity
               /\ \A j \in 1 .. m : Emitted[j].buy_timestamp = open_positions[j].buy_timestamp
               /\ Le(Emitted[m].quantity, open_positions[m].quantity)
               /\ open_positions' =
                      IF Emitted[m].quantity = open_positions[m].quantity
                      THEN SubSeq(open_positions, m + 1, Len(open_positions))
                      ELSE <<[open_positions[m] EXCEPT
                                 !.quantity = Sub(open_positions[m].quantity,
                                                  Emitted[m].quantity)]>>
                               \o SubSeq(open_positions, m + 1, Len(open_positions))
               /\ Sum([j \in 1 .. m |-> Emitted[j].quantity]) = sold
               /\ SoldBy(TheSell) = sold]_vars

\* C23 witness: a SELL consumed the oldest lot and took a part of the second
C23_Witness ==
    /\ branch = "SELL"
    /\ remaining_sell = Zero
    /\ Len(open_positions) = 1
    /\ Len(closed_positions) = 2
    /\ closed_positions[1].sell_timestamp = closed_positions[2].sell_timestamp
    /\ closed_positions[1].buy_timestamp # closed_positions[2].buy_timestamp
    /\ closed_positions[2].buy_timestamp = open_positions[1].buy_timestamp

RECURSIVE EarliestBelow(_, _)
\* the place of the first sample from place k on whose equity is below 0.1,
\* 0 when there is none
EarliestBelow(samples, k) ==
    IF k > Len(samples) THEN 0
    ELSE IF 10 * samples[k].v.n < samples[k].v.d THEN k
    ELSE EarliestBelow(samples, k + 1)

\* the minutes from the first sample to the sample at place k
MinutesTo(samples, k) == samples[k].t - samples[1].t

\* C24: dead_time_minutes is the time from the first sample to the earliest
\* sample whose equity is below 0.1, whatever the initial capital, and the
\* whole span of the curve when no sample is below 0.1
C24_DeadTime ==
    perf.pc \in {"built", "done"} =>
        LET samples == perf.equity_curve.samples
            expected == IF EarliestBelow(samples, 1) > 0
                        THEN MinutesTo(samples, EarliestBelow(samples, 1))
                        ELSE MinutesTo(samples, Len(samples))
        IN  /\ perf.dead_time_minutes = expected
            /\ Reported => perf.report.dead_time_minutes = expected

\* C24 witness: a curve that starts below a tenth of the initial capital and
\* is not dead there, falls to 0 at its second sample and stays there
C24_Witness ==
    /\ Reported
    /\ Len(perf.equity_curve.samples) = 3
    /\ Lt(perf.equity_curve.samples[1].v, Mul(R(1, 10), perf.initial_capital))
    /\ perf.equity_curve.samples[2].v = Zero
    /\ perf.equity_curve.samples[3].v = Zero
    /\ perf.report.dead_time_minutes = 60

\* every sample of the curve is positive
PositiveCurve(samples) == \A k \in 1 .. Len(samples) : samples[k].v.n > 0

\* C(t) = equity(t) / equity(0), for the bars t >= 1 (sample t + 1)
CumulativeReturn(samples, t) == Div(samples[t + 1].v, samples[1].v)

RECURSIVE PeakReturn(_, _)
\* M(t): the largest C(j) over the bars 1 <= j <= t
PeakReturn(samples, t) ==
    IF t = 1 THEN CumulativeReturn(samples, 1)
    ELSE IF Lt(PeakReturn(samples, t - 1), CumulativeReturn(samples, t))
    THEN CumulativeReturn(samples, t)
    ELSE PeakReturn(samples, t - 1)

DrawdownAt(samples, t) ==
    Div(Sub(CumulativeReturn(samples, t), PeakReturn(samples, t)), PeakReturn(samples, t))

\* no per-bar sample is below an earlier per-bar sample
NeverFalls(samples) ==
    \A i \in 2 .. Len(samples) : \A j \in i .. Len(samples) :
        Le(samples[i].v, samples[j].v)

\* C26: on a curve of positive samples with at least one bar, max_drawdown is
\* the least (C(t) - M(t)) / M(t) over the bars t; it is never above 0, and it
\* is 0 when no per-bar sample is below an earlier one
C26_MaxDrawdown ==
    (Reported /\ Len(perf.equity_curve.samples) >= 2
         /\ PositiveCurve(perf.equity_curve.samples)) =>
        LET samples == perf.equity_curve.samples
            bars == 1 .. Len(samples) - 1
        IN  /\ \E t \in bars : perf.report.max_drawdown = DrawdownAt(samples, t)
            /\ \A t \in bars : Le(perf.report.max_drawdown, DrawdownAt(samples, t))
            /\ Le(perf.report.max_drawdown, Zero)
            /\ NeverFalls(samples) => perf.report.max_drawdown = Zero

\* C26 witness: the curve rose and fell back by a half
C26_Witness ==
    /\ Reported
    /\ Len(perf.equity_curve.samples) = 3
    /\ PositiveCurve(perf.equity_curve.samples)
    /\ Lt(perf.equity_curve.samples[1].v, perf.equity_curve.samples[2].v)
    /\ perf.report.max_drawdown = R(-1, 2)

\* a call on a part of the data has passed the checks of lines 125-129 and
\* has returned or raised
PartialRunEnded ==
    /\ pc = "idle"
    /\ percentage < 100
    /\ Len(data.rows) >= 1
    /\ outcome \notin {"none", "ValueError:data", "ValueError:signals"}

\* C25: a run on the first p percent of n bars, 0 < p < 100, processes
\* k = int(n * p / 100) bars and signals and completes with an equity curve
\* of k + 1 samples
C25_PartialRunCompletes ==
    PartialRunEnded =>
        /\ Len(signals) = TargetLength(Len(data.rows), percentage)
        /\ outcome = "ok"
        /\ Len(equity_curve) = TargetLength(Len(data.rows), percentage) + 1

C28_RatioZeroIffNoPosition ==
    /\ current_position_ratio = Zero <=> current_position = Zero
    /\ Lt(Zero, current_position_ratio) <=> Lt(Zero, current_position)

\* C28 witness: the engine bought, sold everything and bought again
C28_Witness ==
    /\ Len(trades) = 3
    /\ trades[1].action = "BUY" /\ trades[2].action = "SELL" /\ trades[3].action = "BUY"
    /\ trades[2].capital_before # trades[2].capital_after
    /\ closed_positions # <<>>
    /\ Len(open_positions) = 1
    /\ open_positions[1].buy_timestamp = 3
    /\ Lt(Zero, current_position_ratio) /\ Lt(Zero, current_position)

\* the cash a trade moved, by the record's own fields: a BUY takes out the
\* value bought plus its commission, a SELL brings in its value less its
\* commission
CashMoved(trade) ==
    IF trade.action = "BUY"
    THEN Neg(Add(Mul(trade.amount, trade.price), trade.commission))
    ELSE Sub(trade.amount, trade.commission)

\* C29: the first trade starts from the initial capital, every later trade
\* starts from the cash the trade before it left, the last trade leaves the
\* cash the engine holds, and each trade moves the cash by -required_capital
\* (BUY) or by sell_value - commission (SELL)
C29_CashContinuity ==
    trades # <<>> =>
        /\ trades[1].capital_before = initial_capital
        /\ \A k \in 1 .. Len(trades) - 1 :
               trades[k + 1].capital_before = trades[k].capital_after
        /\ trades[Len(trades)].capital_after = current_capital
        /\ \A k \in 1 .. Len(trades) :
               Sub(trades[k].capital_after, trades[k].capital_before) = CashMoved(trades[k])

\* C29 witness: three trades at a positive rate, a SELL between two BUYs
C29_Witness ==
    /\ Len(trades) = 3
    /\ Lt(Zero, commission_rate)
    /\ trades[1].action = "BUY" /\ trades[2].action = "SELL" /\ trades[3].action = "BUY"
    /\ Lt(trades[1].capital_after, trades[1].capital_before)
    /\ Lt(trades[2].capital_before, trades[2].capital_after)
    /\ pc = "idle" /\ outcome = "ok"

\* C30: in the sibling engine the cash is never negative after a bar; no BUY,
\* not even a BUY of the whole capital from an empty position, pushes it
\* below 0
C30_PlatformCashNonNegative == Le(Zero, current_capital)

====
